---- MODULE Spec2Model ----
(***************************************************************************)
(* Chess move assistant: the suggestion service (src/lib/stockfish.ts),    *)
(* the orchestrating component (src/components/ChessUI.tsx) and the board  *)
(* input (Chessboard.tsx), as a state machine.                             *)
(*                                                                         *)
(* The rules engine (chess.js) is an external library.  It is represented  *)
(* by a small pawn game that keeps what the program relies on: positions   *)
(* are objects with a board, a side to move and an internal move list;     *)
(* move() THROWS on a move that is not legal in the position and mutates   *)
(* the object it is called on; fen() serialises board and side to move     *)
(* but not the internal move list; a position without legal moves is over. *)
(*                                                                         *)
(* Strings are sequences of one-character strings, so that '' is << >>,    *)
(* length and substring are computed, and a missing value of an optional   *)
(* field is the empty sequence.                                            *)
(***************************************************************************)
EXTENDS Integers, Sequences, FiniteSets, TLC

\* ------------------------------------------------------------------ bounds
\* Number of getBestMove calls issued in one behaviour.
MaxCalls == 2

\* Length of the recorded move list.
MaxMoves == 2

\* Side of a rendered square, in pixels (the board is as wide as its files).
SquarePx == 1

\* ------------------------------------------------------- program constants
\* The fallback timer of getBestMove, in seconds (5000 ms).
TIMEOUT == 5

\* An age at or above which a call is long past its deadline (saturation).
MaxAge == TIMEOUT + 1

\* ----------------------------------------------------------------- strings
Min(a, b) == IF a < b THEN a ELSE b

\* String.prototype.substring(a, b): clamps both indices to the length.
Substring(s, a, b) ==
  LET lo == Min(a, Len(s))
      hi == Min(b, Len(s))
  IN  IF lo >= hi THEN << >> ELSE SubSeq(s, lo + 1, hi)

\* The board of the pawn game: files a and b, ranks 1..3.
FileNames == <<"a", "b">>
Digits == <<"1", "2", "3">>
LastRank == Len(Digits)

\* chess.js algebraic(): the name of the square at file f, rank r.
Algebraic(f, r) == <<FileNames[f], Digits[r]>>

Squares == {Algebraic(f, r) : f \in 1..Len(FileNames), r \in 1..LastRank}

\* The move token Stockfish sends for a position without legal moves.
NoneToken == <<"(", "n", "o", "n", "e", ")">>

\* ------------------------------------------------------------ rules engine
Other(c) == IF c = "w" THEN "b" ELSE "w"

\* The initial position of new Chess(): white pawns on rank 1, black pawns on
\* the last rank.
InitBoard ==
  [sq \in Squares |->
     IF sq[2] = Digits[1] THEN "w"
     ELSE IF sq[2] = Digits[LastRank] THEN "b" ELSE "-"]

\* new Chess()
NewChess == [board |-> InitBoard, turn |-> "w", hist |-> << >>]

\* Chess.fen(): board and side to move; the internal move list is not part of it.
Fen(pos) == [board |-> pos.board, turn |-> pos.turn]

\* new Chess(fen): a position object with an empty internal move list.
LoadFen(fen) == [board |-> fen.board, turn |-> fen.turn, hist |-> << >>]

\* Chess.turn()
Turn(pos) == pos.turn

\* Chess.get(square): the colour of the piece on the square, "-" when empty.
PieceAt(pos, sq) == pos.board[sq]

\* Chess.moves({verbose: true}): the legal moves of the side to move.  A pawn
\* steps one rank forward onto an empty square.
Moves(pos) ==
  LET step == IF pos.turn = "w" THEN 1 ELSE -1
  IN  {[color |-> pos.turn, from |-> Algebraic(f, r), to |-> Algebraic(f, r + step),
        san |-> Algebraic(f, r + step)] :
         <<f, r>> \in {p \in (1..Len(FileNames)) \X (1..LastRank) :
                         /\ pos.board[Algebraic(p[1], p[2])] = pos.turn
                         /\ p[2] + step \in 1..LastRank
                         /\ pos.board[Algebraic(p[1], p[2] + step)] = "-"}}

\* Chess.pgn(): the move text of the moves made on this object since it was
\* constructed, as the sequence of their SANs (numbering and tags left out).
Pgn(pos) == pos.hist

\* Chess.isGameOver()
IsGameOver(pos) == Moves(pos) = {}

\* Chess.move({from, to}) throws unless a legal move has that from and to.
MoveThrows(pos, m) == ~\E x \in Moves(pos) : x.from = m.from /\ x.to = m.to

\* The Move object Chess.move({from, to}) returns.
MoveObject(pos, from, to) == CHOOSE x \in Moves(pos) : x.from = from /\ x.to = to

\* Chess.move({from, to}) when it does not throw: the object after the move.
MakeMove(pos, m) ==
  [board |-> [sq \in Squares |->
                IF sq = m.from THEN "-" ELSE IF sq = m.to THEN pos.turn ELSE pos.board[sq]],
   turn |-> Other(pos.turn),
   hist |-> Append(pos.hist, m.to)]

\* ------------------------------------------------------- stockfish.ts utils
\* moveToUci(move): from + to (+ promotion, which no move of the pawn game has).
moveToUci(m) == m.from \o m.to

\* uciToMove(uci): substring(0,2), substring(2,4), and the promotion letter if
\* the string is longer than 4.
uciToMove(uci) ==
  [from |-> Substring(uci, 0, 2),
   to |-> Substring(uci, 2, 4),
   promotion |-> IF Len(uci) > 4 THEN Substring(uci, 4, 5) ELSE << >>]

\* A chooser that picks among the legal moves of the initial position,
\* whatever position it is given.
simulateBestMove_OfInitial(pos) ==
  IF Moves(NewChess) = {} THEN {<< >>} ELSE {moveToUci(m) : m \in Moves(NewChess)}

\* simulateBestMove(game): '' when there is no legal move, else the UCI form of
\* a legal move picked by Math.random() (the set of possible results).
simulateBestMove(pos) ==
  IF Moves(pos) = {} THEN {<< >>} ELSE {moveToUci(m) : m \in Moves(pos)}

\* ------------------------------------------------------------------- state
VARIABLES
  \* ChessUI (useState)
  game,              \* the Chess object held in state: its current value
  history,           \* Move[]
  currentMoveIndex,  \* -1 = initial position
  playerColor,       \* "w" | "b"
  suggestedMove,     \* << >> (null) or <<[from, to, promotion]>>
  showSuggestions,
  isAnalyzing,
  gameStarted,
  \* Chessboard (useState)
  selectedSquare,    \* << >> (null) or a square name
  dragging,          \* << >> (null) or the square the dragged piece was taken from
  \* StockfishService fields
  engine,            \* "worker" | "null"
  isReady,
  hasInitError,
  readyResolved,     \* readyPromise has been resolved
  moveCallbacks,     \* ids of the calls whose resolve is registered, in order
  lateTimers,        \* ids of the answered calls whose setTimeout has not fired yet
  \* the analysis process (the Worker)
  sent,              \* kinds of commands posted to the worker so far
  goQueue,           \* 'position'+'go' round-trips received and not yet answered
  \* getBestMove / getSuggestedMove invocations in progress
  calls,
  nextId,
  \* the text last written to the clipboard by handleExportPGN
  clipboard,
  \* the operation performed by the last step, and its integer argument or outcome
  lastOp

uiVars == <<game, history, currentMoveIndex, playerColor, suggestedMove,
            showSuggestions, isAnalyzing, gameStarted>>
boardVars == <<selectedSquare, dragging>>
svcVars == <<engine, isReady, hasInitError, readyResolved, moveCallbacks>>
procVars == <<sent, goQueue>>
callVars == <<calls, nextId>>
vars == <<uiVars, boardVars, svcVars, lateTimers, procVars, callVars, clipboard, lastOp>>

Op(name, n) == [op |-> name, n |-> n]

\* The commands init() posts when the Worker was constructed.
InitCommands == {"uci", "setoption", "isready"}

\* State after the module-level `new StockfishService()` and the mount of
\* ChessUI.  `new Worker(url)` either returns (commands posted, readiness
\* pending) or throws (catch branch: hasInitError, readiness resolved).
Init ==
  /\ game = NewChess
  /\ history = << >>
  /\ currentMoveIndex = -1
  /\ playerColor = "w"
  /\ suggestedMove = << >>
  /\ showSuggestions = TRUE
  /\ isAnalyzing = FALSE
  /\ gameStarted = FALSE
  /\ selectedSquare = << >>
  /\ dragging = << >>
  /\ isReady = FALSE
  /\ moveCallbacks = << >>
  /\ lateTimers = {}
  /\ goQueue = << >>
  /\ calls = << >>
  /\ nextId = 1
  /\ clipboard = << >>
  /\ lastOp = Op("init", 0)
  /\ \/ /\ engine = "worker"
        /\ hasInitError = FALSE
        /\ readyResolved = FALSE
        /\ sent = InitCommands
     \/ /\ engine = "null"
        /\ hasInitError = TRUE
        /\ readyResolved = TRUE
        /\ sent = {}

\* ------------------------------------------------------- calls in progress
\* One invocation of getSuggestedMove -> getBestMove(game).
\*   pc      "awaitReady": suspended at `await this.waitUntilReady()`
\*           "waiting":    resolve pushed on moveCallbacks, timer armed
\*           "resolved":   the promise is resolved, the continuation of
\*                         getSuggestedMove has not run yet
\*   game    the Chess object passed in (its current value); live = it is
\*           still the object held in ChessUI's state
\*   fen0    the position at the time of the call
\*   age     seconds since the call; timer: seconds since setTimeout
\*   result  the string the promise resolved with; src: who resolved it;
\*           ans: the id of the round-trip the delivered message answered
NewCall(id, g) ==
  [id |-> id, pc |-> "awaitReady", game |-> g, live |-> TRUE, fen0 |-> Fen(g),
   age |-> 0, timer |-> 0, result |-> << >>, src |-> "-", ans |-> 0]

\* setGame(newObject): calls that hold the old object keep it as it is now.
Detach(cs) == [i \in DOMAIN cs |-> [cs[i] EXCEPT !.live = FALSE]]

\* An in-place mutation of the object in state is seen by every holder of it.
Mutated(cs, g) ==
  [i \in DOMAIN cs |-> IF cs[i].live THEN [cs[i] EXCEPT !.game = g] ELSE cs[i]]

\* Remove the i-th element of a sequence.
RemoveAt(s, i) == SubSeq(s, 1, i - 1) \o SubSeq(s, i + 1, Len(s))

\* Array.prototype.indexOf, 1-based; 0 when absent.
IndexOf(s, x) ==
  IF \E i \in DOMAIN s : s[i] = x THEN CHOOSE i \in DOMAIN s : s[i] = x /\ \A j \in 1..(i - 1) : s[j] # x
  ELSE 0

\* Continuations queued as microtasks run before any other event is handled:
\* the body of getBestMove after the await (once readyPromise is resolved), and
\* the continuation of getSuggestedMove (once getBestMove is resolved).
ProceedPending_NoAwait == {i \in DOMAIN calls : calls[i].pc = "awaitReady"}
ProceedPending == {i \in DOMAIN calls : calls[i].pc = "awaitReady" /\ readyResolved}
ContinuePending == {i \in DOMAIN calls : calls[i].pc = "resolved"}
Idle == ProceedPending = {} /\ ContinuePending = {}

\* ------------------------------------------------------- StockfishService
\* engine.onmessage, message === 'readyok': isReady, resolveReadyPromise().
EngineReadyOk ==
  /\ Idle
  /\ engine = "worker"
  /\ "isready" \in sent
  /\ ~isReady
  /\ isReady' = TRUE
  /\ readyResolved' = TRUE
  /\ lastOp' = Op("readyok", 0)
  /\ UNCHANGED <<clipboard, lateTimers, uiVars, boardVars, engine, hasInitError, moveCallbacks, procVars, callVars>>

\* sendCommand(command): posted only `if (this.engine)`.
sendCommand(kinds) == IF engine # "null" THEN sent \cup kinds ELSE sent

\* The round-trips the worker has received once 'position fen <fen>' and 'go'
\* were handed to sendCommand for call id.
RoundTripPosted(id, fen) ==
  IF engine # "null" THEN Append(goQueue, [id |-> id, fen |-> fen]) ELSE goQueue

\* getBestMove without the fallback branch after the await.
UseFallbackAtOnce_Never == FALSE

\* getBestMove after `await this.waitUntilReady()`, the fallback branch:
\* `if (this.hasInitError || !this.engine) return simulateBestMove(game)`.
UseFallbackAtOnce == hasInitError \/ engine = "null"

\* getBestMove after the await.  Either the immediate fallback, or: push
\* resolve on moveCallbacks, post 'position fen ...' and 'go ...', arm the timer.
Proceed(i) ==
  LET c == calls[i] IN
  /\ i \in ProceedPending
  /\ \A j \in ProceedPending : i <= j
  /\ IF UseFallbackAtOnce
       THEN /\ \E r \in simulateBestMove(c.game) :
                 calls' = [calls EXCEPT ![i] = [c EXCEPT !.pc = "resolved", !.result = r,
                                                         !.src = "fallback"]]
            /\ UNCHANGED <<moveCallbacks, sent, goQueue>>
       ELSE /\ calls' = [calls EXCEPT ![i] = [c EXCEPT !.pc = "waiting", !.timer = 0]]
            /\ moveCallbacks' = Append(moveCallbacks, c.id)
            /\ sent' = sendCommand({"position", "go"})
            /\ goQueue' = RoundTripPosted(c.id, Fen(c.game))
  /\ lastOp' = Op("getBestMove", c.id)
  /\ UNCHANGED <<clipboard, lateTimers, uiVars, boardVars, engine, isReady, hasInitError, readyResolved, nextId>>

\* The move token of an answer of the process to a round-trip: a legal move of
\* the position it was given, '(none)' when that position has none.
EngineTokens(fen) ==
  IF Moves(LoadFen(fen)) = {} THEN {NoneToken}
  ELSE {moveToUci(m) : m \in Moves(LoadFen(fen))}

\* engine.onmessage, message.startsWith('bestmove'): bestMove is the second
\* word; every registered callback is called with it; the list is emptied.
\* The timers of the calls it resolves stay armed.
OnBestMove(bestMove, answered) ==
  /\ calls' = [i \in DOMAIN calls |->
                 IF IndexOf(moveCallbacks, calls[i].id) > 0
                   THEN [calls[i] EXCEPT !.pc = "resolved", !.result = bestMove,
                                         !.src = "process", !.ans = answered]
                   ELSE calls[i]]
  /\ moveCallbacks' = << >>
  /\ lateTimers' = lateTimers \cup {moveCallbacks[k] : k \in DOMAIN moveCallbacks}

\* The process answers the oldest round-trip it has not answered yet.
EngineBestMove ==
  /\ Idle
  /\ engine = "worker"
  /\ goQueue # << >>
  /\ \E tok \in EngineTokens(Head(goQueue).fen) : OnBestMove(tok, Head(goQueue).id)
  /\ goQueue' = Tail(goQueue)
  /\ lastOp' = Op("bestmove", Head(goQueue).id)
  /\ UNCHANGED <<clipboard, uiVars, boardVars, engine, isReady, hasInitError, readyResolved, sent, nextId>>

\* The setTimeout callback without its check of the index.
StillRegistered_Always(index) == TRUE

\* The setTimeout callback: `if (index >= 0)`, index being indexOf(resolve)
\* (here 1-based, 0 when absent).
StillRegistered(index) == index > 0

\* moveCallbacks.splice(index, 1); a negative start counts from the end, so
\* with indexOf's "absent" the last element is the one removed.
SpliceOne(s, index) == IF index = 0 THEN SubSeq(s, 1, Len(s) - 1) ELSE RemoveAt(s, index)

\* The setTimeout callback of getBestMove, 5 s after it was armed: if resolve
\* is still in moveCallbacks, splice it out and resolve with the fallback.
Timeout(i) ==
  LET c == calls[i]
      index == IndexOf(moveCallbacks, c.id)
  IN
  /\ Idle
  /\ i \in DOMAIN calls
  /\ c.pc = "waiting"
  /\ c.timer = TIMEOUT
  /\ StillRegistered(index)
  /\ moveCallbacks' = SpliceOne(moveCallbacks, index)
  /\ \E r \in simulateBestMove(c.game) :
       calls' = [calls EXCEPT ![i] = [c EXCEPT !.pc = "resolved", !.result = r,
                                               !.src = "fallback"]]
  /\ lastOp' = Op("timeout", c.id)
  /\ UNCHANGED <<clipboard, lateTimers, uiVars, boardVars, engine, isReady, hasInitError, readyResolved, procVars, nextId>>

\* The same callback for a call the process has answered meanwhile.  Calling
\* resolve again on a promise that is settled has no effect on it.
TimeoutLate(id) ==
  LET index == IndexOf(moveCallbacks, id) IN
  /\ Idle
  /\ id \in lateTimers
  /\ lateTimers' = lateTimers \ {id}
  /\ IF StillRegistered(index)
       THEN /\ moveCallbacks' = SpliceOne(moveCallbacks, index)
            /\ lastOp' = Op("timeout", id)
       ELSE /\ moveCallbacks' = moveCallbacks
            /\ lastOp' = Op("timeout:late", id)
  /\ UNCHANGED <<clipboard, uiVars, boardVars, engine, isReady, hasInitError, readyResolved, procVars,
                 callVars>>

\* stop(): sendCommand('stop').
Stop ==
  /\ Idle
  /\ sent' = sendCommand({"stop"})
  /\ lastOp' = Op("stop", 0)
  /\ UNCHANGED <<clipboard, lateTimers, uiVars, boardVars, svcVars, goQueue, callVars>>

\* quit() without its check of the handle.
QuitEnters_Always == TRUE

\* quit(): `if (this.engine)`.
QuitEnters == engine # "null"

\* quit(): inside the check, sendCommand('quit'), this.engine.terminate(),
\* this.engine = null.  terminate() called on null throws a TypeError.  A
\* terminated worker posts no further message.
Quit ==
  /\ Idle
  /\ IF QuitEnters
       THEN IF engine = "null"
              THEN /\ lastOp' = Op("quit:throw", 0)
                   /\ UNCHANGED <<engine, sent>>
              ELSE /\ sent' = sendCommand({"quit"})
                   /\ engine' = "null"
                   /\ lastOp' = Op("quit", 1)
       ELSE /\ lastOp' = Op("quit", 0)
            /\ UNCHANGED <<engine, sent>>
  /\ UNCHANGED <<clipboard, lateTimers, uiVars, boardVars, isReady, hasInitError, readyResolved, moveCallbacks,
                 goQueue, callVars>>

\* One second passes (the exact clock).  A timer that is due fires before more
\* time passes.
Tick ==
  /\ Idle
  /\ calls # << >>
  /\ \A i \in DOMAIN calls : calls[i].pc = "waiting" => calls[i].timer < TIMEOUT
  /\ \E i \in DOMAIN calls : calls[i].age < MaxAge
  /\ calls' = [i \in DOMAIN calls |->
                 [calls[i] EXCEPT !.age = Min(@ + 1, MaxAge),
                                  !.timer = IF calls[i].pc = "waiting" THEN @ + 1 ELSE @]]
  /\ lastOp' = Op("tick", 0)
  /\ UNCHANGED <<clipboard, lateTimers, uiVars, boardVars, svcVars, procVars, nextId>>

\* The delay of the oldest armed timer elapses (the clock without durations:
\* timers of equal delay become due in the order they were armed, and ages are
\* not counted).
Elapse ==
  /\ Idle
  /\ \E i \in DOMAIN calls : calls[i].pc = "waiting"
  /\ \A i \in DOMAIN calls : calls[i].pc = "waiting" => calls[i].timer < TIMEOUT
  /\ LET oldest == CHOOSE i \in DOMAIN calls :
                     /\ calls[i].pc = "waiting"
                     /\ \A j \in DOMAIN calls : calls[j].pc = "waiting" => i <= j
     IN calls' = [calls EXCEPT ![oldest].timer = TIMEOUT]
  /\ lastOp' = Op("elapse", 0)
  /\ UNCHANGED <<clipboard, lateTimers, uiVars, boardVars, svcVars, procVars, nextId>>

\* ------------------------------------------------------------------ ChessUI
\* getSuggestedMove up to its await, called with the state of the render it
\* closes over (g, pc, ss); sm and cs are the suggestion and the calls as the
\* handler left them.
GetSuggestedMove(g, pc, ss, sm, cs) ==
  IF ~ss \/ IsGameOver(g)
    THEN suggestedMove' = sm /\ isAnalyzing' = isAnalyzing /\ calls' = cs /\ nextId' = nextId
  ELSE IF Turn(g) = pc
    THEN /\ nextId <= MaxCalls
         /\ suggestedMove' = sm
         /\ isAnalyzing' = TRUE
         /\ calls' = Append(cs, NewCall(nextId, g))
         /\ nextId' = nextId + 1
  ELSE suggestedMove' = << >> /\ isAnalyzing' = isAnalyzing /\ calls' = cs /\ nextId' = nextId

\* The useEffect on [gameStarted, game, playerColor, showSuggestions,
\* getSuggestedMove], run after a render in which one of them changed.
SuggestionEffect(gs, g, pc, ss, sm, cs) ==
  IF gs /\ Turn(g) = pc /\ ss
    THEN GetSuggestedMove(g, pc, ss, sm, cs)
    ELSE suggestedMove' = << >> /\ isAnalyzing' = isAnalyzing /\ calls' = cs /\ nextId' = nextId

\* getSuggestedMove after `await stockfishService.getBestMove(game)`:
\* setSuggestedMove(uciToMove(bestMove)) when bestMove is non-empty and at least
\* 4 long, else setSuggestedMove(null); finally setIsAnalyzing(false).
ShownFor(bestMove) ==
  IF bestMove # << >> /\ Len(bestMove) >= 4 THEN <<uciToMove(bestMove)>> ELSE << >>

Continue(i) ==
  LET c == calls[i] IN
  /\ ProceedPending = {}
  /\ i \in ContinuePending
  /\ \A j \in ContinuePending : i <= j
  /\ suggestedMove' = ShownFor(c.result)
  /\ isAnalyzing' = FALSE
  /\ calls' = RemoveAt(calls, i)
  /\ lastOp' = Op("applyResult", c.id)
  /\ UNCHANGED <<clipboard, lateTimers, game, history, currentMoveIndex, playerColor, showSuggestions, gameStarted,
                 boardVars, svcVars, procVars, nextId>>

\* startGame(color), offered while no side has been chosen.
StartGame(color) ==
  /\ Idle
  /\ ~gameStarted
  /\ playerColor' = color
  /\ gameStarted' = TRUE
  /\ game' = NewChess
  /\ history' = << >>
  /\ currentMoveIndex' = -1
  /\ SuggestionEffect(TRUE, NewChess, color, showSuggestions, << >>, Detach(calls))
  /\ lastOp' = Op("startGame", 0)
  /\ UNCHANGED <<clipboard, lateTimers, showSuggestions, boardVars, svcVars, procVars>>

\* handleReset without setHistory([]).
HandleReset_KeepsHistory ==
  /\ Idle
  /\ gameStarted
  /\ game' = NewChess
  /\ history' = history
  /\ currentMoveIndex' = -1
  /\ SuggestionEffect(gameStarted, NewChess, playerColor, showSuggestions, << >>, Detach(calls))
  /\ lastOp' = Op("handleReset", 0)
  /\ UNCHANGED <<clipboard, lateTimers, playerColor, showSuggestions, gameStarted, boardVars, svcVars, procVars>>

\* handleReset
HandleReset ==
  /\ Idle
  /\ gameStarted
  /\ game' = NewChess
  /\ history' = << >>
  /\ currentMoveIndex' = -1
  /\ SuggestionEffect(gameStarted, NewChess, playerColor, showSuggestions, << >>, Detach(calls))
  /\ lastOp' = Op("handleReset", 0)
  /\ UNCHANGED <<clipboard, lateTimers, playerColor, showSuggestions, gameStarted, boardVars, svcVars, procVars>>

\* `for (i = 0; i < n; i++) newGame.move(h[i])` on a new Chess(): the object
\* reached, or a throw (h[i] undefined, or not legal).
RECURSIVE Replay(_, _)
Replay(h, n) ==
  IF n <= 0 THEN [ok |-> TRUE, pos |-> NewChess]
  ELSE LET r == Replay(h, n - 1) IN
       IF ~r.ok \/ n > Len(h) THEN [ok |-> FALSE, pos |-> r.pos]
       ELSE IF MoveThrows(r.pos, h[n]) THEN [ok |-> FALSE, pos |-> r.pos]
       ELSE [ok |-> TRUE, pos |-> MakeMove(r.pos, h[n])]

\* The guard of handleUndo off by one: `if (currentMoveIndex < -1) return`.
UndoReturns_OffByOne(cur) == cur < -1

\* The guard of handleUndo: `if (currentMoveIndex < 0) return`.
UndoReturns(cur) == cur < 0

\* handleUndo
HandleUndo ==
  LET r == Replay(history, currentMoveIndex) IN
  /\ Idle
  /\ gameStarted
  /\ IF UndoReturns(currentMoveIndex)
       THEN /\ lastOp' = Op("handleUndo:return", currentMoveIndex)
            /\ UNCHANGED <<uiVars, callVars>>
     ELSE IF ~r.ok
       THEN /\ lastOp' = Op("handleUndo:throw", currentMoveIndex)
            /\ UNCHANGED <<uiVars, callVars>>
     ELSE /\ game' = r.pos
          /\ currentMoveIndex' = currentMoveIndex - 1
          /\ SuggestionEffect(gameStarted, r.pos, playerColor, showSuggestions, << >>,
                              Detach(calls))
          /\ lastOp' = Op("handleUndo", currentMoveIndex)
          /\ UNCHANGED <<history, playerColor, showSuggestions, gameStarted>>
  /\ UNCHANGED <<clipboard, lateTimers, boardVars, svcVars, procVars>>

\* The replay loop stopping one move early: `for (i = 0; i < index; i++)`.
ReplayCount_Exclusive(index) == index

\* The number of moves the loop of handleMoveClick replays:
\* `for (i = 0; i <= index; i++)`.
ReplayCount(index) == index + 1

\* handleMoveClick(index): replay history[0..index] on a new Chess(), then
\* setGame and setCurrentMoveIndex(index).  There is no check of index.
HandleMoveClick(index) ==
  LET r == Replay(history, ReplayCount(index)) IN
  /\ Idle
  /\ gameStarted
  /\ IF ~r.ok
       THEN /\ lastOp' = Op("handleMoveClick:throw", index)
            /\ UNCHANGED <<uiVars, callVars>>
       ELSE /\ game' = r.pos
            /\ currentMoveIndex' = index
            /\ SuggestionEffect(gameStarted, r.pos, playerColor, showSuggestions,
                                suggestedMove, Detach(calls))
            /\ lastOp' = Op("handleMoveClick", index)
            /\ UNCHANGED <<history, playerColor, showSuggestions, gameStarted>>
  /\ UNCHANGED <<clipboard, lateTimers, boardVars, svcVars, procVars>>

\* onToggleSuggestions = setShowSuggestions, from the switch of the panel.
ToggleSuggestions ==
  /\ Idle
  /\ gameStarted
  /\ showSuggestions' = ~showSuggestions
  /\ SuggestionEffect(gameStarted, game, playerColor, ~showSuggestions, suggestedMove, calls)
  /\ lastOp' = Op("toggleSuggestions", 0)
  /\ UNCHANGED <<clipboard, lateTimers, game, history, currentMoveIndex, playerColor, gameStarted,
                 boardVars, svcVars, procVars>>

\* handleExportPGN: game.pgn() written to the clipboard.
HandleExportPGN ==
  /\ Idle
  /\ gameStarted
  /\ clipboard' = Pgn(game)
  /\ lastOp' = Op("exportPGN", 0)
  /\ UNCHANGED <<lateTimers, uiVars, boardVars, svcVars, procVars, callVars>>

\* handleMove with `[...history, move]`: nothing after the cursor is dropped.
NewHistory_NoTruncate(h, cur, move) == h \o <<move>>

\* Array.prototype.slice(0, end): a negative end counts from the end.
Slice0(s, end) ==
  LET e == IF end < 0 THEN (IF Len(s) + end < 0 THEN 0 ELSE Len(s) + end)
           ELSE Min(end, Len(s))
  IN  SubSeq(s, 1, e)

\* handleMove: `[...history.slice(0, currentMoveIndex + 1), move]`.
NewHistory(h, cur, move) == Slice0(h, cur + 1) \o <<move>>

\* handleMove(move).  g0 is the value of the object in state when onMove is
\* called and cs0 the calls then.  newGame = new Chess(game.fen());
\* newGame.move(move) throws (caught, nothing is set) or the state is updated.
HandleMoveBody(g0, cs0, move) ==
  LET newGame == LoadFen(Fen(g0)) IN
  IF MoveThrows(newGame, move)
    THEN /\ game' = g0
         /\ calls' = cs0
         /\ UNCHANGED <<history, currentMoveIndex, suggestedMove, isAnalyzing, nextId>>
    ELSE LET after == MakeMove(newGame, move)
             newHistory == NewHistory(history, currentMoveIndex, move)
         IN /\ game' = after
            /\ history' = newHistory
            /\ currentMoveIndex' = Len(newHistory) - 1
            /\ SuggestionEffect(gameStarted, after, playerColor, showSuggestions,
                                IF move.color = playerColor THEN << >> ELSE suggestedMove,
                                Detach(cs0))

\* onMove called by a child with a Move object: one that is legal in the
\* position held in state, or the last recorded one (used again).
HandleMove(move) ==
  /\ Idle
  /\ gameStarted
  /\ MoveThrows(game, move) \/ Len(NewHistory(history, currentMoveIndex, move)) <= MaxMoves
  /\ HandleMoveBody(game, calls, move)
  /\ lastOp' = IF MoveThrows(game, move)
                 THEN Op("handleMove:throw", 0)
                 ELSE Op("handleMove", Len(history) - Len(Slice0(history, currentMoveIndex + 1)))
  /\ UNCHANGED <<clipboard, lateTimers, playerColor, showSuggestions, gameStarted, boardVars, svcVars, procVars>>

MoveInputs ==
  Moves(game) \cup (IF history = << >> THEN {} ELSE {history[Len(history)]})

\* --------------------------------------------------------------- Chessboard
\* handleSquareClick(square); `if (dragging) return`.  position is the object
\* in ChessUI's state: position.move(...) changes it in place, then onMove(move).
HandleSquareClick(square) ==
  LET intent == [from |-> selectedSquare, to |-> square] IN
  /\ Idle
  /\ gameStarted
  /\ dragging = << >>
  /\ IF selectedSquare # << >>
       THEN IF ~MoveThrows(game, intent)
              THEN LET move == MoveObject(game, selectedSquare, square)
                       moved == MakeMove(game, move)
                   IN /\ HandleMoveBody(moved, Mutated(calls, moved), move)
                      /\ selectedSquare' = selectedSquare
                      /\ lastOp' = Op("click:move", 0)
              ELSE /\ selectedSquare' =
                        IF square # selectedSquare /\ PieceAt(game, square) = Turn(game)
                          THEN square ELSE << >>
                   /\ lastOp' = Op("click:invalid", 0)
                   /\ UNCHANGED <<game, history, currentMoveIndex, suggestedMove, isAnalyzing,
                                  callVars>>
       ELSE /\ selectedSquare' =
                 IF PieceAt(game, square) = Turn(game) THEN square ELSE selectedSquare
            /\ lastOp' = Op("click:select", 0)
            /\ UNCHANGED <<game, history, currentMoveIndex, suggestedMove, isAnalyzing, callVars>>
  /\ UNCHANGED <<clipboard, lateTimers, playerColor, showSuggestions, gameStarted, dragging, svcVars, procVars>>

\* String.fromCharCode(n) for the codes 96..99, and the decimal form of 0..4:
\* what `String.fromCharCode(97 + file) + (rank + 1)` is made of when file
\* and rank run from -1 to the number of files and ranks.  The character of
\* code 96, the grave accent, is written "^".
CharCodes == <<"^", "a", "b", "c">>
FromCharCode(n) == CharCodes[n - 95]
DecimalDigits == <<"0", "1", "2", "3", "4">>
NumberToString(n) == DecimalDigits[n + 1]

\* getBoundingClientRect() of the board: one square per file wide, one per
\* rank high.
RectWidth == Len(FileNames) * SquarePx
RectHeight == LastRank * SquarePx

\* handleDragEnd: file = floor(x / squareSize), rank = last - floor(y /
\* squareSize), both mirrored when flipped; the name of that square.
TargetSquare(x, y, flipped) ==
  LET file0 == x \div SquarePx
      rank0 == (LastRank - 1) - (y \div SquarePx)
      file == IF flipped THEN (Len(FileNames) - 1) - file0 ELSE file0
      rank == IF flipped THEN (LastRank - 1) - rank0 ELSE rank0
  IN  <<FromCharCode(97 + file), NumberToString(rank + 1)>>

\* renderBoard: the square of the grid cell that holds the point (x, y) of the
\* board.  Rows show the ranks from the last down (from the first up when
\* flipped), columns the files from the first up (from the last down when
\* flipped); the far edges belong to the last column and row.
RenderedSquare(x, y, flipped) ==
  LET col == Min(x \div SquarePx, Len(FileNames) - 1)
      row == Min(y \div SquarePx, LastRank - 1)
      ranks == [k \in 1..LastRank |-> IF flipped THEN k - 1 ELSE LastRank - k]
      files == [k \in 1..Len(FileNames) |-> IF flipped THEN Len(FileNames) - k ELSE k - 1]
  IN  <<FromCharCode(97 + files[col + 1]), NumberToString(ranks[row + 1] + 1)>>

\* Release points: on the board, on its edges, and one pixel outside.
ReleaseXs == (-1)..(RectWidth + 1)
ReleaseYs == (-1)..(RectHeight + 1)

\* The points a drag is released at: every point of the board and its edges,
\* and one point off each side (a release off the board has the same effect
\* wherever it is).
OutsidePoints == {<<-1, 0>>, <<RectWidth + 1, 0>>, <<0, -1>>, <<0, RectHeight + 1>>}
ReleasePoints == ((0..RectWidth) \X (0..RectHeight)) \cup OutsidePoints

\* handleDragStart(square, e), attached to a square that shows a piece
\* (`piece && handleDragStart`): returns unless the piece is of the side to
\* move; setSelectedSquare(square), setDragging.
HandleDragStart(square) ==
  /\ Idle
  /\ gameStarted
  /\ PieceAt(game, square) # "-"
  /\ PieceAt(game, square) = Turn(game)
  /\ selectedSquare' = square
  /\ dragging' = square
  /\ lastOp' = Op("dragStart", 0)
  /\ UNCHANGED <<clipboard, lateTimers, uiVars, svcVars, procVars, callVars>>

\* handleDragEnd(e), the window listener registered while dragging, with the
\* release point (x, y) relative to the board and the orientation.  Outside
\* the board: clear.  Else position.move({from: dragging.square, to:
\* targetSquare}) on the object in state, onMove(move); a throw is caught;
\* setDragging(null), setSelectedSquare(null).
HandleDragEnd(x, y, flipped) ==
  LET targetSquare == TargetSquare(x, y, flipped)
      intent == [from |-> dragging, to |-> targetSquare]
  IN
  /\ Idle
  /\ gameStarted
  /\ dragging # << >>
  /\ IF x < 0 \/ y < 0 \/ x > RectWidth \/ y > RectHeight
       THEN /\ lastOp' = Op("drag:outside", 0)
            /\ UNCHANGED <<game, history, currentMoveIndex, suggestedMove, isAnalyzing, callVars>>
     ELSE IF ~MoveThrows(game, intent)
       THEN LET move == MoveObject(game, dragging, targetSquare)
                moved == MakeMove(game, move)
            IN /\ HandleMoveBody(moved, Mutated(calls, moved), move)
               /\ lastOp' = Op("drag:move", 0)
     ELSE /\ lastOp' = Op("drag:invalid", 0)
          /\ UNCHANGED <<game, history, currentMoveIndex, suggestedMove, isAnalyzing, callVars>>
  /\ dragging' = << >>
  /\ selectedSquare' = << >>
  /\ UNCHANGED <<clipboard, lateTimers, playerColor, showSuggestions, gameStarted, svcVars, procVars>>

\* ----------------------------------------------------------- specifications
\* Steps of the service and of the process, common to all.
ServiceNext ==
  \/ EngineReadyOk
  \/ EngineBestMove
  \/ \E i \in DOMAIN calls : Timeout(i)
  \/ \E id \in lateTimers : TimeoutLate(id)
  \/ \E i \in DOMAIN calls : Proceed(i)
  \/ \E i \in DOMAIN calls : Continue(i)

\* The program as wired: Index -> ChessUI -> Chessboard, ControlPanel,
\* MoveHistory.  MoveHistory renders a button per recorded move; no move is
\* ever recorded here (HistoryStaysEmpty), so it renders none.
\* A drag holds the pointer from press to release: the buttons of the panel
\* are not clicked meanwhile.
NoDrag == dragging = << >>

Next ==
  \/ \E color \in {"w", "b"} : StartGame(color)
  \/ NoDrag /\ HandleReset
  \/ NoDrag /\ HandleUndo
  \/ NoDrag /\ ToggleSuggestions
  \/ \E square \in Squares : HandleSquareClick(square)
  \/ \E square \in Squares : HandleDragStart(square)
  \/ \E p \in ReleasePoints, flipped \in BOOLEAN : HandleDragEnd(p[1], p[2], flipped)
  \/ ServiceNext
  \/ Elapse

Spec == Init /\ [][Next]_vars

\* ChessUI's handlers driven through their props by well-behaved children:
\* onMove with a Move object, onMoveClick with the index of a rendered button.
HandlersNext ==
  \/ \E color \in {"w", "b"} : StartGame(color)
  \/ HandleReset
  \/ HandleUndo
  \/ ToggleSuggestions
  \/ \E move \in MoveInputs : HandleMove(move)
  \/ \E index \in 0..(Len(history) - 1) : HandleMoveClick(index)
  \/ ServiceNext

NextHandlers ==
  \/ HandlersNext
  \/ Elapse

SpecHandlers == Init /\ [][NextHandlers]_vars

\* The same with time counted in seconds.
NextTimed ==
  \/ HandlersNext
  \/ Tick

SpecTimed == Init /\ [][NextTimed]_vars

\* onMoveClick called with an index no button has, below or above the range.
\* Durations are not counted.
OutOfRange == {-2, Len(history)}

NextJump ==
  \/ HandlersNext
  \/ \E index \in OutOfRange : HandleMoveClick(index)
  \/ Elapse

SpecJump == Init /\ [][NextJump]_vars

\* The board alone after a side was chosen: clicks and drags, no button of
\* the panel.
NextBoard ==
  \/ \E color \in {"w", "b"} : StartGame(color)
  \/ \E square \in Squares : HandleSquareClick(square)
  \/ \E square \in Squares : HandleDragStart(square)
  \/ \E p \in ReleasePoints, flipped \in BOOLEAN : HandleDragEnd(p[1], p[2], flipped)
  \/ ServiceNext
  \/ Elapse

SpecBoard == Init /\ [][NextBoard]_vars

\* The handlers, with a client of the service that calls stop() and quit()
\* at any time, any number of times (nothing in src/ calls them).
NextLifecycle ==
  \/ HandlersNext
  \/ Stop
  \/ Quit
  \/ Elapse

SpecLifecycle == Init /\ [][NextLifecycle]_vars

\* The same under the scheduling of the event loop: a continuation whose
\* promise is resolved runs, a timer that is due fires, a live worker answers
\* what it was sent, and the delay of an armed timer elapses.
LifecycleFairness ==
  /\ WF_vars(EngineReadyOk)
  /\ WF_vars(EngineBestMove)
  /\ WF_vars(\E i \in DOMAIN calls : Timeout(i))
  /\ WF_vars(\E id \in lateTimers : TimeoutLate(id))
  /\ WF_vars(\E i \in DOMAIN calls : Proceed(i))
  /\ WF_vars(\E i \in DOMAIN calls : Continue(i))
  /\ WF_vars(Elapse)

SpecLifecycleFair == SpecLifecycle /\ LifecycleFairness

\* The handlers with the export button of the panel.  The export writes the
\* clipboard only, which nothing reads; the other specifications leave it out.
NextExport ==
  \/ HandlersNext
  \/ HandleExportPGN
  \/ Elapse

SpecExport == Init /\ [][NextExport]_vars

\* ------------------------------------------------------------- well-formed
\* In the program as wired no move is ever recorded: the board has already
\* played the move on the object in state when handleMove replays it.
HistoryStaysEmpty == history = << >> /\ currentMoveIndex = -1

\* Registered callbacks are exactly the calls that wait for an answer.
CallbacksAreWaiters ==
  /\ \A k \in DOMAIN moveCallbacks :
       \E i \in DOMAIN calls : calls[i].id = moveCallbacks[k] /\ calls[i].pc = "waiting"
  /\ \A i \in DOMAIN calls :
       calls[i].pc = "waiting" => IndexOf(moveCallbacks, calls[i].id) > 0

\* ------------------------------------------------------------------- claims
\* C1: every getBestMove call is resolved within TIMEOUT seconds of the call,
\* whatever the process does: no call is still pending (suspended on readiness
\* or waiting for an answer) more than TIMEOUT seconds after it was made.
C1_ResolvedWithinDeadline ==
  \A i \in DOMAIN calls :
    calls[i].pc \in {"awaitReady", "waiting"} => calls[i].age <= TIMEOUT

\* C2: a call that is resolved by a message of the process is resolved by the
\* answer to its own 'position'/'go' round-trip, never by the answer to another
\* call's.
C2_OwnAnswerOnly ==
  \A i \in DOMAIN calls :
    (calls[i].pc = "resolved" /\ calls[i].src = "process") => calls[i].ans = calls[i].id

\* C3: the continuation of getSuggestedMove writes a result to suggestedMove
\* only if its request is the newest one issued and the active position is
\* still the position the request was issued for.
C3_StaleResultDropped ==
  [][(lastOp'.op = "applyResult" /\ suggestedMove' # << >>) =>
       /\ lastOp'.n = nextId - 1
       /\ \E i \in DOMAIN calls : calls[i].id = lastOp'.n /\ calls[i].fen0 = Fen(game)]_vars

\* C4: the active position equals the replay of history[0..currentMoveIndex]
\* from the initial position.
C4_GameIsReplay ==
  LET r == Replay(history, currentMoveIndex + 1)
  IN  r.ok /\ Fen(game) = Fen(r.pos)

\* C5: when handleMove records a move with the cursor at c, the new list is
\* history[0..c] followed by that move, a legal move of the position, and the
\* cursor is its index.
C5_AppendTruncates ==
  [][lastOp'.op = "handleMove" =>
       /\ Len(history') = currentMoveIndex + 2
       /\ SubSeq(history', 1, currentMoveIndex + 1) = SubSeq(history, 1, currentMoveIndex + 1)
       /\ history'[Len(history')] \in Moves(game)
       /\ currentMoveIndex' = currentMoveIndex + 1]_vars

\* handleMove has just recorded a move and discarded the moves after the cursor.
C5_Witness ==
  /\ lastOp.op = "handleMove"
  /\ lastOp.n > 0
  /\ history # << >>
  /\ currentMoveIndex = Len(history) - 1

\* C6: handleMoveClick with an index below -1 or at or above the length of the
\* move list leaves the move list, the cursor and the active position
\* unchanged.
C6_OutOfRangeUnchanged ==
  [][(/\ lastOp'.op \in {"handleMoveClick", "handleMoveClick:throw"}
      /\ (lastOp'.n < -1 \/ lastOp'.n >= Len(history))) =>
       UNCHANGED <<history, currentMoveIndex, game>>]_vars

\* C7: handleUndo with the cursor at -1 changes neither the move list, nor the
\* cursor, nor the active position, nor the displayed suggestion.
C7_UndoAtStartUnchanged ==
  [][(/\ lastOp'.op \in {"handleUndo", "handleUndo:return", "handleUndo:throw"}
      /\ currentMoveIndex = -1) =>
       UNCHANGED <<history, currentMoveIndex, game, suggestedMove>>]_vars

\* handleUndo has just returned at cursor -1 while a suggestion was displayed.
C7_Witness ==
  /\ lastOp.op = "handleUndo:return"
  /\ currentMoveIndex = -1
  /\ suggestedMove # << >>

\* What holds of a handle whose construction failed: readiness is released, no
\* worker is held, nothing was ever posted to the process, no callback waits,
\* and every call that is resolved was resolved by simulateBestMove on its own
\* position.
FailedHandle ==
  /\ readyResolved
  /\ engine = "null"
  /\ sent = {}
  /\ goQueue = << >>
  /\ moveCallbacks = << >>
  /\ \A i \in DOMAIN calls :
       /\ calls[i].pc # "waiting"
       /\ calls[i].pc = "resolved" =>
            (calls[i].src = "fallback" /\ calls[i].result \in simulateBestMove(calls[i].game))

\* C8: once construction of the process has failed the handle is Failed in
\* every later state, with readiness released from the start, and every
\* getBestMove call is resolved by the fallback chooser with no command sent.
C8_FailedIsTerminal ==
  /\ [](hasInitError => FailedHandle)
  /\ [][hasInitError => hasInitError']_vars

\* A call on a failed handle has been resolved by the fallback chooser.
C8_Witness ==
  /\ hasInitError
  /\ \E i \in DOMAIN calls : calls[i].pc = "resolved" /\ calls[i].src = "fallback"

\* C9: a call resolves to '' exactly when the position it was made for has no
\* legal move, whichever path resolves it.
C9_NoMoveIffNoLegalMove ==
  \A i \in DOMAIN calls :
    calls[i].pc = "resolved" =>
      ((calls[i].result = << >>) <=> (Moves(LoadFen(calls[i].fen0)) = {}))

\* C10: a suggestion is displayed (suggestedMove set, suggestions enabled) only
\* when the game has started and the side to move in the active position is
\* the human's colour.
C10_SuggestionOnlyOnHumanTurn ==
  (suggestedMove # << >> /\ showSuggestions) => (gameStarted /\ Turn(game) = playerColor)

\* The operations that change or navigate the timeline: a move accepted on the
\* board (click or drag), a move recorded by handleMove, a history click, an
\* undo, a reset, a game start.
TimelineOps ==
  {"click:move", "drag:move", "handleMove", "handleMoveClick", "handleUndo",
   "handleReset", "startGame"}

\* C11: every timeline operation that ends in a position that is not over,
\* with the human to move and suggestions enabled, issues exactly one
\* getBestMove call, for that position; every other one issues none.
C11_OneRequestPerHumanTurn ==
  [][lastOp'.op \in TimelineOps =>
       IF gameStarted' /\ showSuggestions' /\ ~IsGameOver(game') /\ Turn(game') = playerColor'
         THEN /\ nextId' = nextId + 1
              /\ Len(calls') = Len(calls) + 1
              /\ calls'[Len(calls')].id = nextId
              /\ calls'[Len(calls')].pc = "awaitReady"
              /\ calls'[Len(calls')].fen0 = Fen(game')
         ELSE nextId' = nextId /\ Len(calls') = Len(calls)]_vars

\* C12: at most one response waiter is registered at any time.
C12_SingleWaiter == Len(moveCallbacks) <= 1

\* A string of the coordinate encoding <from><to>[promotion] over the squares
\* of the board.
IsCoordinateMove(s) ==
  /\ Len(s) \in {4, 5}
  /\ Substring(s, 0, 2) \in Squares
  /\ Substring(s, 2, 4) \in Squares

\* C13: a response whose token is not a coordinate move never becomes the
\* result of a call nor the displayed suggestion: every resolved call holds ''
\* or a coordinate move, and a displayed suggestion names two squares.
C13_MalformedDegrades ==
  /\ \A i \in DOMAIN calls :
       calls[i].pc = "resolved" =>
         (calls[i].result = << >> \/ IsCoordinateMove(calls[i].result))
  /\ suggestedMove # << >> =>
       (suggestedMove[1].from \in Squares /\ suggestedMove[1].to \in Squares)

\* The transcript of the recorded moves: their SANs in order.
Transcript(h) == [k \in 1..Len(h) |-> h[k].san]

\* C14: with the cursor on the last recorded move, the exported move text is
\* the transcript of the recorded moves, however the object in state was
\* made.
C14_ExportIsTranscript ==
  (lastOp.op = "exportPGN" /\ currentMoveIndex = Len(history) - 1) =>
    clipboard = Transcript(history)

\* C15: handleMoveClick with the index of a recorded move leaves the move list
\* as it is, sets the cursor to the index and the active position to the
\* replay of history[0..index], which is a function of the list and the index;
\* side, suggestion switch and started flag are untouched.
C15_JumpOnlyMovesCursor ==
  [][(/\ lastOp'.op \in {"handleMoveClick", "handleMoveClick:throw"}
      /\ lastOp'.n \in 0..(Len(history) - 1)) =>
       /\ lastOp'.op = "handleMoveClick"
       /\ history' = history
       /\ currentMoveIndex' = lastOp'.n
       /\ Replay(history, lastOp'.n + 1).ok
       /\ game' = Replay(history, lastOp'.n + 1).pos
       /\ UNCHANGED <<playerColor, showSuggestions, gameStarted>>]_vars

\* handleMoveClick has just gone back to the first of two recorded moves.
C15_Witness ==
  /\ lastOp = Op("handleMoveClick", 0)
  /\ Len(history) = 2
  /\ currentMoveIndex = 0
  /\ game = Replay(history, 1).pos

\* C16: handleReset and startGame leave the move list empty, the cursor at -1,
\* the active position initial and no suggestion displayed.
C16_ResetClears ==
  [][lastOp'.op \in {"handleReset", "startGame"} =>
       /\ history' = << >>
       /\ currentMoveIndex' = -1
       /\ game' = NewChess
       /\ suggestedMove' = << >>]_vars

\* handleReset has just run in a game in which a move had been recorded: a
\* call issued for a later position is still in progress.
C16_Witness ==
  /\ lastOp.op = "handleReset"
  /\ history = << >>
  /\ currentMoveIndex = -1
  /\ game = NewChess
  /\ suggestedMove = << >>
  /\ \E i \in DOMAIN calls : calls[i].fen0 # Fen(NewChess)

\* C17: 'position' and 'go' are posted to the process only after 'readyok'
\* was received: whenever one of them has been posted isReady holds, and the
\* step that posts a round-trip starts in a state where isReady holds.
C17_NoRoundTripBeforeReady ==
  /\ [](("position" \in sent \/ "go" \in sent \/ goQueue # << >>) => isReady)
  /\ [][(goQueue' # goQueue /\ Len(goQueue') > Len(goQueue)) => isReady]_vars

\* getBestMove has just posted the round-trip of a call.
C17_Witness ==
  /\ lastOp.op = "getBestMove"
  /\ isReady
  /\ {"position", "go"} \subseteq sent
  /\ goQueue # << >>
  /\ goQueue[Len(goQueue)].id = lastOp.n

\* C18: stop() and quit() never raise, in any state of the handle and however
\* often they are called; quit() leaves the handle released, posting 'quit'
\* when it held a worker and changing nothing when it held none; stop() posts
\* to a held worker and changes nothing otherwise.
C18_StopQuitSafe ==
  [][lastOp'.op \in {"stop", "quit", "quit:throw"} =>
       /\ lastOp'.op # "quit:throw"
       /\ lastOp'.op = "quit" =>
            /\ engine' = "null"
            /\ engine # "null" => ("quit" \in sent' /\ lastOp'.n = 1)
            /\ engine = "null" => (lastOp'.n = 0 /\ UNCHANGED <<svcVars, procVars>>)
       /\ lastOp'.op = "stop" =>
            /\ UNCHANGED svcVars
            /\ engine = "null" => sent' = sent
            /\ engine # "null" => "stop" \in sent'
       /\ UNCHANGED <<uiVars, callVars>>]_vars

\* quit() has just been called on a handle a previous quit() had released.
C18_Witness ==
  /\ lastOp = Op("quit", 0)
  /\ engine = "null"
  /\ "quit" \in sent
  /\ ~hasInitError

\* C19: when a call is resolved by simulateBestMove (at once on a handle
\* without a worker, or by the timer), the result is '' exactly when the
\* position given has no legal move, and otherwise the coordinate form of one
\* of its legal moves; the position given, the other calls, the state of
\* ChessUI and the process are as before.
C19_ChooserLegal ==
  [][lastOp'.op \in {"timeout", "getBestMove"} =>
       \A i \in DOMAIN calls :
         (calls[i].id = lastOp'.n /\ calls'[i].pc = "resolved") =>
           LET c == calls[i]
               r == calls'[i].result
           IN /\ calls'[i].src = "fallback"
              /\ (r = << >>) <=> (Moves(c.game) = {})
              /\ r # << >> =>
                   \E m \in Moves(c.game) :
                     uciToMove(r).from = m.from /\ uciToMove(r).to = m.to
              /\ calls'[i].game = c.game
              /\ \A j \in DOMAIN calls : j # i => calls'[j] = calls[j]
              /\ UNCHANGED <<uiVars, procVars, engine, isReady, hasInitError>>]_vars

\* The timer of a call has just resolved it with '': the position it holds
\* has no legal move.
C19_Witness ==
  /\ lastOp.op = "timeout"
  /\ \E i \in DOMAIN calls :
       /\ calls[i].id = lastOp.n
       /\ calls[i].pc = "resolved"
       /\ calls[i].src = "fallback"
       /\ calls[i].result = << >>
       /\ Moves(calls[i].game) = {}

\* The chooser has just returned a legal move of a position that is not the
\* initial one.
ChooserMoveReached ==
  /\ lastOp.op \in {"timeout", "getBestMove"}
  /\ \E i \in DOMAIN calls :
       /\ calls[i].id = lastOp.n
       /\ calls[i].pc = "resolved"
       /\ calls[i].src = "fallback"
       /\ calls[i].result # << >>
       /\ Fen(calls[i].game) # Fen(NewChess)

\* C20: a move accepted on the board, by click or by drag, is recorded once:
\* the move list becomes history[0..cursor] followed by that move, a legal
\* move of the position before, the cursor is on it and the active position
\* is the position after it.
C20_BoardMoveAppends ==
  [][lastOp'.op \in {"click:move", "drag:move"} =>
       /\ Len(history') = currentMoveIndex + 2
       /\ SubSeq(history', 1, currentMoveIndex + 1) = SubSeq(history, 1, currentMoveIndex + 1)
       /\ currentMoveIndex' = currentMoveIndex + 1
       /\ history'[Len(history')] \in Moves(game)
       /\ Fen(game') = Fen(MakeMove(game, history'[Len(history')]))]_vars

\* The attempts to move on the board, successful or not.
BoardAttempts == {"click:move", "click:invalid", "drag:move", "drag:invalid"}

\* C21: an attempt to move on the board leaves the object held in state as it
\* was: every call that holds that object sees the same position after the
\* step, and the active position changes only by a move being recorded (a
\* fresh object installed by handleMove).
C21_NoInPlaceMutation ==
  [][lastOp'.op \in BoardAttempts =>
       /\ \A i \in DOMAIN calls :
            i \in DOMAIN calls' => calls'[i].game = calls[i].game
       /\ game' # game => Len(history') = currentMoveIndex + 2]_vars

\* C23: the cursor is at least -1 and at most the index of the last recorded
\* move.
C23_CursorInRange ==
  /\ -1 <= currentMoveIndex
  /\ currentMoveIndex <= Len(history) - 1

\* handleUndo has just brought the cursor from the first of two recorded
\* moves down to -1.
C23_Witness ==
  /\ lastOp = Op("handleUndo", 0)
  /\ currentMoveIndex = -1
  /\ Len(history) = 2

\* C24: a click with a square armed attempts the move from the armed square
\* to the clicked one, and afterwards no square is armed, unless the click
\* armed a different square holding a piece of the side to move.
C24_ArmedCleared ==
  [][(lastOp'.op \in {"click:move", "click:invalid"}) =>
       /\ selectedSquare # << >>
       /\ \/ selectedSquare' = << >>
          \/ /\ selectedSquare' # selectedSquare
             /\ PieceAt(game', selectedSquare') = Turn(game')]_vars

\* C25: while a piece is dragged, every release point that handleDragEnd does
\* not reject as outside the board gives, in both orientations, a target that
\* is a square of the board and is the square rendered at that point.
C25_ReleaseTargetOnBoard ==
  dragging # << >> =>
    \A x \in ReleaseXs, y \in ReleaseYs, flipped \in BOOLEAN :
      ~(x < 0 \/ y < 0 \/ x > RectWidth \/ y > RectHeight) =>
        /\ TargetSquare(x, y, flipped) \in Squares
        /\ TargetSquare(x, y, flipped) = RenderedSquare(x, y, flipped)

\* The same for the points strictly inside the right and bottom edges.
ReleaseInsideOnBoard ==
  dragging # << >> =>
    \A x \in 0..(RectWidth - 1), y \in 0..(RectHeight - 1), flipped \in BOOLEAN :
      /\ TargetSquare(x, y, flipped) \in Squares
      /\ TargetSquare(x, y, flipped) = RenderedSquare(x, y, flipped)

\* The suggestion requests whose getBestMove promise is not resolved yet.
Outstanding == {i \in DOMAIN calls : calls[i].pc \in {"awaitReady", "waiting"}}

\* C27: isAnalyzing is true whenever a suggestion request is outstanding, and
\* false whenever no request is in progress.
C27_AnalyzingTracksRequests ==
  /\ Outstanding # {} => isAnalyzing
  /\ calls = << >> => ~isAnalyzing

\* The second half alone: with no request in progress the flag is down.
AnalyzingDownWhenNoCall == calls = << >> => ~isAnalyzing

\* quit() has released the handle: engine is null without an init error.
Released == engine = "null" /\ ~hasInitError

\* The getBestMove promise of call id is not resolved.
Unresolved(id) ==
  \E i \in DOMAIN calls : calls[i].id = id /\ calls[i].pc \in {"awaitReady", "waiting"}

\* Call id waits for an answer, its timer armed.
AwaitsAnswer(id) == \E i \in DOMAIN calls : calls[i].id = id /\ calls[i].pc = "waiting"

\* C26: once quit() has released the handle, every call that is unresolved,
\* made before or after, is eventually resolved.
C26_ResolvesAfterQuit ==
  \A id \in 1..MaxCalls : (Released /\ Unresolved(id)) ~> ~Unresolved(id)

\* The part for the calls that had reached the service's wait for an answer.
WaitingResolvesAfterQuit ==
  \A id \in 1..MaxCalls : (Released /\ AwaitsAnswer(id)) ~> ~AwaitsAnswer(id)

\* After the release, a call is resolved by the fallback chooser only.
ResolvedByFallbackAfterQuit ==
  Released => \A i \in DOMAIN calls : calls[i].pc = "resolved" => calls[i].src = "fallback"

\* C22: each call is settled by one racer only.  A message of the process is
\* delivered to calls that still wait and changes no other call; with no
\* waiter registered it changes nothing of the service or of the interface.
\* A timer resolves with the fallback only a call that still waits and was
\* not answered, and removes its waiter; the timer of an answered call
\* changes nothing.
C22_OneRacerSettles ==
  [][/\ (lastOp'.op = "bestmove" =>
          /\ \A k \in DOMAIN moveCallbacks : AwaitsAnswer(moveCallbacks[k])
          /\ \A i \in DOMAIN calls :
               IF IndexOf(moveCallbacks, calls[i].id) > 0
                 THEN calls'[i].pc = "resolved" /\ calls'[i].src = "process"
                 ELSE calls'[i] = calls[i]
          /\ moveCallbacks = << >> =>
               UNCHANGED <<uiVars, boardVars, svcVars, lateTimers, sent, callVars>>)
     /\ (lastOp'.op = "timeout" =>
          LET id == lastOp'.n IN
          /\ AwaitsAnswer(id)
          /\ id \notin lateTimers
          /\ IndexOf(moveCallbacks, id) > 0
          /\ IndexOf(moveCallbacks', id) = 0
          /\ \A i \in DOMAIN calls :
               IF calls[i].id = id
                 THEN calls'[i].pc = "resolved" /\ calls'[i].src = "fallback"
                 ELSE calls'[i] = calls[i])
     /\ (lastOp'.op = "timeout:late" =>
          /\ lastOp'.n \in lateTimers
          /\ ~Unresolved(lastOp'.n)
          /\ UNCHANGED <<uiVars, boardVars, svcVars, procVars, callVars, clipboard>>)]_vars

\* The process answered a call, and afterwards the timer of that call fired.
C22_Witness == lastOp.op = "timeout:late"

\* A message of the process arrived after the timer had settled the call it
\* answers, with no waiter registered.
LateAnswerReached ==
  /\ lastOp.op = "bestmove"
  /\ lastOp.n \notin lateTimers
  /\ ~(\E i \in DOMAIN calls : calls[i].id = lastOp.n)

====
